---- MODULE Spec2Model ----
(***************************************************************************)
(* Schnorr signatures over G1 (src/src/schnorr_sig/schnorr.rs).            *)
(*                                                                         *)
(* The curve is a scaled-down short Weierstrass curve y^2 = x^3 + CoeffB   *)
(* of prime order FrModulus over the prime field of FqModulus elements,    *)
(* in the role of BLS12-381 G1.  Points are computed with the Jacobian     *)
(* formulas of the curve library, scalars are integers modulo FrModulus,   *)
(* and SHA-256 is a function from byte strings to DigestBits-bit digests   *)
(* that is fixed during a run but otherwise arbitrary.                     *)
(***************************************************************************)
EXTENDS Integers, Sequences, FiniteSets, TLC

\* ---------------------------------------------------------------- sizes

\* Order of the base field (FqConfig's modulus, scaled down).
FqModulus == 7

\* Order of the scalar field ScalarField = Fr, and of the group (scaled down).
FrModulus == 3

\* Curve coefficient b of y^2 = x^3 + b.
CoeffB == 4

\* Number of bits of a digest (one more than the bits of FrModulus, as the
\* 256-bit SHA-256 digest is one more than the 255 bits of Fr).
DigestBits == 3

\* Number of significant bits of FrModulus (MODULUS_BIT_SIZE).
ModulusBits == 2

\* Most key pairs generated in a run.
MaxKeys == 2

\* Most calls of verify in a run.
MaxVerify == 2

\* ---------------------------------------------------------------- fields

Fq == 0 .. (FqModulus - 1)

Scalars == 0 .. (FrModulus - 1)

Digests == 0 .. (2 ^ DigestBits - 1)

\* b"Hello world!" and b"Hello world!!"
msg == << 72, 101, 108, 108, 111, 32, 119, 111, 114, 108, 100, 33 >>

tampered_msg == << 72, 101, 108, 108, 111, 32, 119, 111, 114, 108, 100, 33, 33 >>

\* The messages verify is called on.
Messages == { msg, tampered_msg }

\* The messages sign is called on.
SignedMessages == { msg }

FqAdd(a, b) == (a + b) % FqModulus

FqSub(a, b) == (a - b) % FqModulus

FqMul(a, b) == (a * b) % FqModulus

FqNeg(a) == (0 - a) % FqModulus

FqDouble(a) == (a + a) % FqModulus

FqSquare(a) == (a * a) % FqModulus

\* The inverses of the elements of Fq other than zero, computed once.
FqInverses == [a \in Fq \ {0} |-> CHOOSE i \in Fq : (a * i) % FqModulus = 1]

FqInverse(a) == FqInverses[a]

FrAdd(a, b) == (a + b) % FrModulus

FrMul(a, b) == (a * b) % FrModulus

\* ---------------------------------------------------------------- group

\* G1Affine: the point at infinity is (0, 0, infinity).
AffineIdentity == [x |-> 0, y |-> 0, infinity |-> TRUE]

is_on_curve(p) ==
    p.infinity \/ FqSquare(p.y) = FqAdd(FqMul(FqSquare(p.x), p.x), CoeffB % FqModulus)

G1Affine == { p \in [x : Fq, y : Fq, infinity : BOOLEAN] :
                 /\ is_on_curve(p)
                 /\ p.infinity => p = AffineIdentity }

\* G1Projective: Jacobian coordinates, x = X/Z^2, y = Y/Z^3; zero has Z = 0.
ProjectiveZero == [x |-> 1, y |-> 1, z |-> 0]

is_zero(p) == p.z = 0

generator == [x |-> 0, y |-> 2, z |-> 1]

\* From<G1Affine> for G1Projective
into_projective(p) ==
    IF p.infinity THEN ProjectiveZero ELSE [x |-> p.x, y |-> p.y, z |-> 1]

\* into_affine dividing y by Z^2 instead of Z^3.
into_affine_square_only(p) ==
    IF is_zero(p) THEN AffineIdentity
    ELSE LET zinv_squared == FqSquare(FqInverse(p.z))
         IN  [x |-> FqMul(p.x, zinv_squared),
              y |-> FqMul(p.y, zinv_squared),
              infinity |-> FALSE]

into_affine(p) ==
    IF is_zero(p) THEN AffineIdentity
    ELSE IF p.z = 1 THEN [x |-> p.x, y |-> p.y, infinity |-> FALSE]
    ELSE LET zinv         == FqInverse(p.z)
             zinv_squared == FqSquare(zinv)
         IN  [x |-> FqMul(p.x, zinv_squared),
              y |-> FqMul(p.y, FqMul(zinv_squared, zinv)),
              infinity |-> FALSE]

double_in_place(p) ==
    IF is_zero(p) THEN p
    ELSE LET a  == FqSquare(p.x)
             b  == FqSquare(p.y)
             c  == FqSquare(b)
             d  == FqDouble(FqSub(FqSub(FqSquare(FqAdd(p.x, b)), a), c))
             e  == FqAdd(a, FqDouble(a))
             x3 == FqSub(FqSquare(e), FqDouble(d))
         IN  [x |-> x3,
              y |-> FqSub(FqMul(e, FqSub(d, x3)), FqDouble(FqDouble(FqDouble(c)))),
              z |-> FqDouble(FqMul(p.z, p.y))]

\* G1Projective + G1Projective
add(p, other) ==
    IF is_zero(p) THEN other
    ELSE IF is_zero(other) THEN p
    ELSE LET z1z1 == FqSquare(p.z)
             z2z2 == FqSquare(other.z)
             u1   == FqMul(p.x, z2z2)
             u2   == FqMul(other.x, z1z1)
             s1   == FqMul(FqMul(p.y, other.z), z2z2)
             s2   == FqMul(FqMul(other.y, p.z), z1z1)
         IN  IF u1 = u2 /\ s1 = s2 THEN double_in_place(p)
             ELSE LET h  == FqSub(u2, u1)
                      i  == FqSquare(FqDouble(h))
                      j  == FqNeg(FqMul(h, i))
                      r  == FqDouble(FqSub(s2, s1))
                      v  == FqMul(u1, i)
                      x3 == FqSub(FqAdd(FqSquare(r), j), FqDouble(v))
                  IN  [x |-> x3,
                       y |-> FqAdd(FqMul(r, FqSub(v, x3)), FqDouble(FqMul(s1, j))),
                       z |-> FqMul(FqSub(FqSub(FqSquare(FqAdd(p.z, other.z)), z1z1), z2z2), h)]

\* The bits of n, most significant first, without leading zeros.
RECURSIVE BitsBE(_)
BitsBE(n) == IF n = 0 THEN << >> ELSE Append(BitsBE(n \div 2), n % 2)

\* Double-and-add over the bits bs, continuing from the accumulator res.
RECURSIVE double_and_add(_, _, _)
double_and_add(res, base, bs) ==
    IF bs = << >> THEN res
    ELSE LET doubled == double_in_place(res)
             next    == IF Head(bs) = 1 THEN add(doubled, base) ELSE doubled
         IN  double_and_add(next, base, Tail(bs))

\* The points scalar multiplication starts from: the affine points, as
\* projective points.
MulBases == { into_projective(p) : p \in G1Affine }

\* The multiples of the points of MulBases by double-and-add, computed once.
MulTable ==
    [base \in MulBases, scalar \in 0 .. FrModulus |->
        double_and_add(ProjectiveZero, base, BitsBE(scalar))]

\* G1Projective * ScalarField
mul(base, scalar) == MulTable[base, scalar]

\* PartialEq for G1Projective
eq(p, other) ==
    IF is_zero(p) THEN is_zero(other)
    ELSE IF is_zero(other) THEN FALSE
    ELSE LET z1z1 == FqSquare(p.z)
             z2z2 == FqSquare(other.z)
         IN  /\ FqMul(p.x, z2z2) = FqMul(other.x, z1z1)
             /\ FqMul(p.y, FqMul(z2z2, other.z)) = FqMul(other.y, FqMul(z1z1, p.z))

is_in_correct_subgroup_assuming_on_curve(p) ==
    is_zero(mul(into_projective(p), FrModulus))

\* G1Projective::new: the point given by the coordinates, asserted to be on
\* the curve and in the subgroup.
new(x, y, z) ==
    LET p == into_affine([x |-> x, y |-> y, z |-> z])
    IN  [panicked |-> ~ (is_on_curve(p) /\ is_in_correct_subgroup_assuming_on_curve(p)),
         point    |-> into_projective(p)]

\* ---------------------------------------------------------------- encoding

\* A point is lexicographically largest when its y exceeds that of its negation.
lexicographically_largest(y) == y > (FqModulus - 1) \div 2

\* serialize_compressed failing on the point at infinity.
serialize_compressed_no_infinity(p) ==
    [ok    |-> ~ p.infinity,
     bytes |-> << 128 + (IF ~ p.infinity /\ lexicographically_largest(p.y) THEN 32 ELSE 0)
                      + (IF p.infinity THEN 0 ELSE p.x) >>]

\* CanonicalSerialize for G1Affine, compressed: one flag byte holding the
\* compression bit, the infinity bit, the sort bit and x.
serialize_compressed(p) ==
    [ok    |-> TRUE,
     bytes |-> << 128 + (IF p.infinity THEN 64 ELSE 0)
                      + (IF ~ p.infinity /\ lexicographically_largest(p.y) THEN 32 ELSE 0)
                      + (IF p.infinity THEN 0 ELSE p.x) >>]

\* The bytes fed to the hasher: the message, then the serialized point.
hasher_input(message, u_t) == message \o serialize_compressed(u_t).bytes

\* Field::from_random_bytes: the bits above the modulus size are cleared and
\* the rest is a scalar only when it is below the modulus.
from_random_bytes(hash_result) ==
    LET masked == hash_result % (2 ^ ModulusBits)
    IN  IF masked < FrModulus THEN [some |-> TRUE, value |-> masked]
        ELSE [some |-> FALSE, value |-> 0]

\* Option::unwrap_or
unwrap_or(opt, default) == IF opt.some THEN opt.value ELSE default

\* ---------------------------------------------------------------- scheme

\* generate_keypair, given the scalar drawn from the random source.
generate_keypair(drawn) ==
    LET private_key           == drawn
        public_key            == mul(generator, private_key)
        public_key_projective == new(public_key.x, public_key.y, public_key.z)
        public_key_affine     == into_affine(public_key_projective.point)
    IN  [sk       |-> private_key,
         pk       |-> public_key_affine,
         panicked |-> public_key_projective.panicked,
         draws    |-> 1,
         hashes   |-> 0]

\* hash_message_and_ut, given the hash function and the scalar drawn from the
\* random source for the argument of unwrap_or (drawn before unwrap_or runs).
hash_message_and_ut(message, u_t, Sha256, drawn) ==
    LET u_t_serialized_bytes == serialize_compressed(u_t)
    IN  IF ~ u_t_serialized_bytes.ok
        THEN [panicked |-> TRUE, c |-> 0, some |-> FALSE, draws |-> 0, hashes |-> 0]
        ELSE LET hash_result == Sha256[hasher_input(message, u_t)]
                 opt         == from_random_bytes(hash_result)
             IN  [panicked |-> FALSE,
                  c        |-> unwrap_or(opt, drawn),
                  some     |-> opt.some,
                  draws    |-> 1,
                  hashes   |-> 1]

\* sign leaving the secret key out of the response.
sign_without_key(private_key, message, drawn_nonce, Sha256, drawn) ==
    LET u_t_affine == into_affine(mul(generator, drawn_nonce))
        h          == hash_message_and_ut(message, u_t_affine, Sha256, drawn)
    IN  [U        |-> u_t_affine,
         z        |-> FrAdd(drawn_nonce, h.c),
         c        |-> h.c,
         some     |-> h.some,
         panicked |-> h.panicked,
         draws    |-> 1 + h.draws,
         hashes   |-> h.hashes]

\* sign, given the nonce drawn, the hash function and the scalar drawn inside
\* hash_message_and_ut.
sign(private_key, message, drawn_nonce, Sha256, drawn) ==
    LET alpha_t    == drawn_nonce
        u_t        == mul(generator, alpha_t)
        u_t_affine == into_affine(u_t)
        h          == hash_message_and_ut(message, u_t_affine, Sha256, drawn)
        alpha_z    == FrAdd(alpha_t, FrMul(private_key, h.c))
    IN  [U        |-> u_t_affine,
         z        |-> alpha_z,
         c        |-> h.c,
         some     |-> h.some,
         panicked |-> h.panicked,
         draws    |-> 1 + h.draws,
         hashes   |-> h.hashes]

\* verify scaling the generator, instead of the public key, by the challenge.
verify_without_key(public_key, message, signature, Sha256, drawn) ==
    LET h       == hash_message_and_ut(message, signature[1], Sha256, drawn)
        g       == mul(generator, signature[2])
        g_prime == add(into_projective(signature[1]), mul(generator, h.c))
    IN  [ok       |-> eq(g, g_prime),
         c        |-> h.c,
         some     |-> h.some,
         panicked |-> h.panicked,
         draws    |-> h.draws,
         hashes   |-> h.hashes]

\* verify, given the hash function and the scalar drawn inside
\* hash_message_and_ut.
verify(public_key, message, signature, Sha256, drawn) ==
    LET u_t     == signature[1]
        alpha_z == signature[2]
        h       == hash_message_and_ut(message, u_t, Sha256, drawn)
        g       == mul(generator, alpha_z)
        u_c     == mul(into_projective(public_key), h.c)
        g_prime == add(into_projective(u_t), u_c)
    IN  [ok       |-> eq(g, g_prime),
         c        |-> h.c,
         some     |-> h.some,
         panicked |-> h.panicked,
         draws    |-> h.draws,
         hashes   |-> h.hashes]

\* ---------------------------------------------------------------- state

VARIABLES
    keys,   \* the key pairs generate_keypair has returned
    sig,    \* the signature sign has returned, with the call's arguments
    ver,    \* the arguments of verify, with what its calls have returned
    sha     \* SHA-256 on the inputs hashed so far

vars == << keys, sig, ver, sha >>

NoSig == [none |-> TRUE]

NoVer == [none |-> TRUE]

NoSha == [i \in {} |-> 0]

\* The digests SHA-256 can have on input: the one it had before, if any.
DigestsOf(input) == IF input \in DOMAIN sha THEN {sha[input]} ELSE Digests

\* SHA-256 with the digest d on input.
Sha256With(input, d) == [i \in DOMAIN sha \cup {input} |-> IF i = input THEN d ELSE sha[i]]

Init ==
    /\ keys = {}
    /\ sig = NoSig
    /\ ver = NoVer
    /\ sha = NoSha

\* A call of generate_keypair; a run generates at most MaxKeys key pairs.
GenerateKeypair ==
    /\ Cardinality(keys) < MaxKeys
    /\ \E drawn \in Scalars :
        /\ keys' = keys \cup {generate_keypair(drawn)}
        /\ UNCHANGED << sig, ver, sha >>

\* A call of sign, with the secret key of a generated key pair, on msg; a run
\* signs once.
Sign ==
    /\ sig = NoSig
    /\ \E kp \in keys, message \in SignedMessages, drawn_nonce \in Scalars, drawn \in Scalars :
        LET input == hasher_input(message, into_affine(mul(generator, drawn_nonce)))
        IN  \E d \in DigestsOf(input) :
                LET Sha256 == Sha256With(input, d)
                    s      == sign(kp.sk, message, drawn_nonce, Sha256, drawn)
                IN  /\ sig' = [sk |-> kp.sk, pk |-> kp.pk, m |-> message,
                               alpha |-> drawn_nonce, U |-> s.U, z |-> s.z,
                               c |-> s.c, some |-> s.some, panicked |-> s.panicked,
                               draws |-> s.draws, hashes |-> s.hashes]
                    /\ sha' = Sha256
                    /\ UNCHANGED << keys, ver >>

\* A call of verify, under a generated public key, on any message and on the
\* commitment of the run's signature with any response; a run calls verify
\* with one choice of arguments, at most MaxVerify times.
Verify ==
    /\ sig # NoSig
    /\ ver # NoVer => ver.calls < MaxVerify
    /\ \E kp \in keys, message \in Messages, alpha_z \in Scalars :
        /\ ver # NoVer => (ver.pk = kp.pk /\ ver.m = message /\ ver.z = alpha_z)
        /\ \E drawn \in Scalars, d \in DigestsOf(hasher_input(message, sig.U)) :
            LET Sha256 == Sha256With(hasher_input(message, sig.U), d)
                v      == verify(kp.pk, message, << sig.U, alpha_z >>, Sha256, drawn)
                before == IF ver = NoVer THEN [cs |-> {}, oks |-> {}, calls |-> 0] ELSE ver
            IN  /\ ver' = [pk |-> kp.pk, m |-> message, U |-> sig.U, z |-> alpha_z,
                           c |-> v.c, some |-> v.some, ok |-> v.ok,
                           panicked |-> v.panicked,
                           draws |-> v.draws, hashes |-> v.hashes,
                           cs |-> before.cs \cup {v.c},
                           oks |-> before.oks \cup {v.ok},
                           calls |-> before.calls + 1]
                /\ sha' = Sha256
                /\ UNCHANGED << keys, sig >>

Next == GenerateKeypair \/ Sign \/ Verify

Spec == Init /\ [][Next]_vars

\* ---------------------------------------------------------------- properties

\* The group law on affine points, by chord and tangent.
AffineAdd(p1, p2) ==
    IF p1.infinity THEN p2
    ELSE IF p2.infinity THEN p1
    ELSE IF p1.x = p2.x /\ FqAdd(p1.y, p2.y) = 0 THEN AffineIdentity
    ELSE LET lambda == IF p1 = p2
                       THEN FqMul(FqMul(3, FqSquare(p1.x)), FqInverse(FqDouble(p1.y)))
                       ELSE FqMul(FqSub(p2.y, p1.y), FqInverse(FqSub(p2.x, p1.x)))
             x3     == FqSub(FqSub(FqSquare(lambda), p1.x), p2.x)
         IN  [x |-> x3,
              y |-> FqSub(FqMul(lambda, FqSub(p1.x, x3)), p1.y),
              infinity |-> FALSE]

\* p * k: the point p added to itself k times.
RECURSIVE AffineTimes(_, _)
AffineTimes(p, k) ==
    IF k = 0 THEN AffineIdentity ELSE AffineAdd(AffineTimes(p, k - 1), p)

\* Generator * k
GeneratorTimes(k) == AffineTimes([x |-> generator.x, y |-> generator.y, infinity |-> FALSE], k)

\* verify has been called on the message and the signature that sign returned.
VerifiedAsSigned == sig # NoSig /\ ver # NoVer /\ ver.m = sig.m /\ ver.z = sig.z

\* verify has been called under the public key of the signing key.
UnderSignerKey == ver.pk = sig.pk

\* verify has been called under the public key of a generated key pair whose
\* secret key is not the signing key.
OtherKeys == { kp \in keys : kp.pk = ver.pk /\ kp.sk # sig.sk }

\* C1: a signature returned by sign verifies under the public key of the
\* signing key and the signed message.
C1_Completeness == (VerifiedAsSigned /\ UnderSignerKey) => ver.ok

\* C2: the challenge derived for a message and a commitment is the same at
\* every call: every call of verify derives the same challenge, and the one
\* sign derived for that message and commitment.
C2_ChallengeDeterministic ==
    ver # NoVer =>
        /\ Cardinality(ver.cs) = 1
        /\ (ver.m = sig.m /\ ver.U = sig.U) => ver.cs = {sig.c}

\* C3: a signature never verifies, under the signer's public key, on a
\* message other than the signed one.
C3_TamperedMessageRejected ==
    (sig # NoSig /\ ver # NoVer /\ UnderSignerKey /\ ver.z = sig.z /\ ver.m # sig.m)
        => ~ ver.ok

\* C3, amended: under the signer's public key, on a message other than the
\* signed one, the signature is rejected exactly when the secret key is not
\* zero and the challenge verify derives is not the challenge sign derived.
C3_TamperedMessageRejectedUnlessDegenerate ==
    (sig # NoSig /\ ver # NoVer /\ UnderSignerKey /\ ver.z = sig.z /\ ver.m # sig.m)
        => (~ ver.ok <=> (sig.sk # 0 /\ ver.c # sig.c))

C3_Witness ==
    /\ sig # NoSig /\ ver # NoVer /\ UnderSignerKey /\ ver.z = sig.z /\ ver.m # sig.m
    /\ sig.sk # 0 /\ ver.c # sig.c /\ ~ ver.ok

\* C4: with the signed message, the signer's public key and the commitment of
\* the signature, no response other than the one sign returned verifies.
C4_TamperedResponseRejected ==
    (sig # NoSig /\ ver # NoVer /\ UnderSignerKey /\ ver.m = sig.m /\ ver.z # sig.z)
        => ~ ver.ok

\* C5: a signature never verifies, on the signed message, under the public
\* key of a key pair with another secret key.
C5_OtherKeyRejected == (VerifiedAsSigned /\ OtherKeys # {}) => ~ ver.ok

\* C5, amended: on the signed message, under the public key of a key pair
\* with another secret key sk2, the signature is rejected exactly when
\* sk1 * c differs from sk2 * c', for the signing key sk1, the challenge c of
\* sign and the challenge c' of verify; so it is rejected whenever both
\* challenges are the same scalar other than zero.
C5_OtherKeyRejectedUnlessProductsAgree ==
    (VerifiedAsSigned /\ OtherKeys # {}) =>
        /\ \A kp \in OtherKeys :
               ~ ver.ok <=> FrMul(sig.sk, sig.c) # FrMul(kp.sk, ver.c)
        /\ (ver.c = sig.c /\ sig.c # 0) => ~ ver.ok

C5_Witness ==
    /\ VerifiedAsSigned /\ OtherKeys # {}
    /\ ver.c = sig.c /\ sig.c # 0 /\ ~ ver.ok

GeneratorMultiples == [k \in Scalars |-> GeneratorTimes(k)]

\* C7: the public key of every key pair generate_keypair returns is
\* Generator * secretKey, the secret key zero included, and generate_keypair
\* does not panic.
C7_KeyPairInvariant ==
    \A kp \in keys : kp.pk = GeneratorMultiples[kp.sk] /\ ~ kp.panicked

C7_Witness == { kp.sk : kp \in keys } = {0, 2}

\* C8: the challenge is the digest of the message followed by the serialized
\* commitment, as an integer, reduced modulo the order of the scalar field.
C8_ChallengeIsDigestReduced ==
    ver # NoVer =>
        /\ ver.m \o serialize_compressed(ver.U).bytes \in DOMAIN sha
        /\ ver.c = sha[ver.m \o serialize_compressed(ver.U).bytes] % FrModulus

\* C9: every call of verify with the same arguments returns the same boolean,
\* the truth value of Generator * response = commitment + publicKey * c for
\* the one challenge c of the message and the commitment.
C9_VerifyIsAFunction ==
    ver # NoVer =>
        /\ Cardinality(ver.oks) = 1
        /\ Cardinality(ver.cs) = 1
        /\ ver.ok = (GeneratorTimes(ver.z) = AffineAdd(ver.U, AffineTimes(ver.pk, ver.c)))

\* C10: generate_keypair and sign each draw once from the random source,
\* verify does not draw, and sign and verify each hash once.
C10_RandomnessConsumption ==
    /\ \A kp \in keys : kp.draws = 1 /\ kp.hashes = 0
    /\ sig # NoSig => (sig.draws = 1 /\ sig.hashes = 1)
    /\ ver # NoVer => (ver.draws = 0 /\ ver.hashes = 1)

====
